---- MODULE Spec2Model ----
(***************************************************************************)
(* A model of CommentsContribution                                         *)
(* (packages/plugin-ext/src/main/browser/comments/comments-contribution.ts)*)
(* the controller that serialises "add a comment at a line" requests and   *)
(* reconciles comment-thread deltas with the list of zone widgets.         *)
(*                                                                         *)
(* JavaScript runs the controller on one event loop: a handler runs to its *)
(* end or to its next await before another one starts.  Every action below *)
(* is one such run.                                                        *)
(***************************************************************************)
EXTENDS Integers, Sequences, FiniteSets, TLC

\* ------------------------------------------------------------------ bounds
MaxQueue == 2       \* longest _emptyThreadsToAddQueue explored
MaxWidgets == 2     \* longest _commentWidgets explored
MaxThreads == 2     \* longest CommentInfo.threads explored

\* ---------------------------------------------------------------- universes
Owners == {"o1", "o2"}
Resources == {"a", "b"}
Lines == {1, 2, 3}
DiffEditors == {"d1", "d2"}

\* The modified model's uri of a diff editor.
ResourceOf(d) == IF d = "d1" THEN "a" ELSE "b"

\* CommentThread: threadId ('' = not yet persisted), resource, range.startLineNumber.
T1 == [threadId |-> "t1", resource |-> "a", line |-> 1]
T0 == [threadId |-> "", resource |-> "a", line |-> 2]
TB == [threadId |-> "t1", resource |-> "b", line |-> 1]
Threads == {T1, T0, TB}

\* Threads of resource b with ids of their own: a persisted one and a template.
T2 == [threadId |-> "t2", resource |-> "b", line |-> 3]
T0B == [threadId |-> "", resource |-> "b", line |-> 2]

VARIABLES
    addInProgress,            \* _addInProgress
    commentWidgets,           \* _commentWidgets
    commentInfos,             \* _commentInfos
    emptyThreadsToAddQueue,   \* _emptyThreadsToAddQueue
    currentEditor,            \* editorManager.currentEditor
    editors,                  \* each diff editor's place in its onCreated handler
    fetches,                  \* beginCompute's getComments calls that have not settled
    running,                  \* creation workflows started at line 235 and not yet completed
    last                      \* the handler that ran last, and what it did

vars == <<addInProgress, commentWidgets, commentInfos, emptyThreadsToAddQueue,
          currentEditor, editors, fetches, running, last>>

\* ------------------------------------------------------------------ helpers
Max(a, b) == IF a >= b THEN a ELSE b

RECURSIVE SelectIdx(_, _, _)
\* The indices i >= from of seq with seq[i] in pred, in order.
SelectIdx(seq, pred, from) ==
    IF from > Len(seq) THEN <<>>
    ELSE IF seq[from] \in pred THEN <<from>> \o SelectIdx(seq, pred, from + 1)
    ELSE SelectIdx(seq, pred, from + 1)

RemoveAt(seq, i) == SubSeq(seq, 1, i - 1) \o SubSeq(seq, i + 1, Len(seq))

Range(seq) == {seq[i] : i \in 1..Len(seq)}

\* ------------------------------------------------------------ the editor
\* get editor(): the modified editor of the current editor when that is a diff editor.
editor == IF currentEditor \in DiffEditors THEN currentEditor ELSE "none"

\* this.editor && editorModel && editorModel.uri
editorURI == IF editor # "none" THEN ResourceOf(editor) ELSE "none"

\* getCurrentEditor()
getCurrentEditor == currentEditor

\* _computePromise is declared and read, and no line of the class assigns it.
computePromise == "undefined"

\* ------------------------------------------------------- the collaborators
\* rangeDecorator.getMatchedCommentAction(lineNumber): the provider candidates of a
\* line.  Line 1 has one, line 2 none, line 3 two.
getMatchedCommentAction(lineNumber) ==
    CASE lineNumber = 1 -> <<"o1">>
      [] lineNumber = 2 -> <<>>
      [] OTHER -> <<"o1", "o2">>

\* CommentThreadWidget.getGlyphPosition(): the line the widget was displayed at.
getGlyphPosition(widget) == widget.commentThread.line

\* ------------------------------------------------------- the serializer
\* The handlers below run on a record s of the fields they change:
\*   flag (_addInProgress), queue (_emptyThreadsToAddQueue), running,
\*   peak (the largest value running took), started (the creation workflows
\*   started at line 235), created (the createCommentThreadTemplate calls made),
\*   attempted (the requests that took the lock, in order).
existingCommentsAtLine(lineNumber) ==
    SelectIdx(commentWidgets, {w \in Range(commentWidgets) : getGlyphPosition(w) = lineNumber}, 1)

RECURSIVE addOrToggleCommentAtLine(_, _, _)
RECURSIVE processNextThreadToAdd(_)
RECURSIVE addCommentAtLine(_, _, _)
RECURSIVE addCommentAtLine2(_, _, _)

\* The workflow of line 235 starts.
startWorkflow(s) ==
    [s EXCEPT !.running = @ + 1, !.peak = Max(@, s.running + 1), !.started = @ + 1]

\* addOrToggleCommentAtLine without the test of _addInProgress (line 226).
addOrToggleUnguarded(s, lineNumber, e) ==
    LET s1 == [s EXCEPT !.flag = TRUE, !.attempted = Append(@, <<lineNumber, e>>)]
    IN  IF Len(existingCommentsAtLine(lineNumber)) > 0
        THEN processNextThreadToAdd(s1)
        ELSE addCommentAtLine(startWorkflow(s1), lineNumber, e)

\* addOrToggleCommentAtLine queuing at the head (unshift) instead of the tail (push).
addOrToggleQueuesAtHead(s, lineNumber, e) ==
    IF ~s.flag
    THEN LET s1 == [s EXCEPT !.flag = TRUE, !.attempted = Append(@, <<lineNumber, e>>)]
         IN  IF Len(existingCommentsAtLine(lineNumber)) > 0
             THEN processNextThreadToAdd(s1)
             ELSE addCommentAtLine(startWorkflow(s1), lineNumber, e)
    ELSE [s EXCEPT !.queue = <<<<lineNumber, e>>>> \o @]

addOrToggleCommentAtLine(s, lineNumber, e) ==
    IF ~s.flag
    THEN LET s1 == [s EXCEPT !.flag = TRUE, !.attempted = Append(@, <<lineNumber, e>>)]
         IN  IF Len(existingCommentsAtLine(lineNumber)) > 0
             THEN processNextThreadToAdd(s1)
             ELSE addCommentAtLine(startWorkflow(s1), lineNumber, e)
    ELSE [s EXCEPT !.queue = Append(@, <<lineNumber, e>>)]

\* processNextThreadToAdd taking the newest entry (pop) instead of the oldest (shift).
processNextNewestFirst(s) ==
    LET s1 == [s EXCEPT !.flag = FALSE, !.running = IF @ > 0 THEN @ - 1 ELSE 0]
    IN  IF Len(s1.queue) > 0
        THEN LET info == s1.queue[Len(s1.queue)]
             IN  addOrToggleCommentAtLine(
                     [s1 EXCEPT !.queue = SubSeq(@, 1, Len(@) - 1)], info[1], info[2])
        ELSE s1

\* processNextThreadToAdd that clears the flag and leaves the queue alone.
processNextWithoutShift(s) ==
    [s EXCEPT !.flag = FALSE, !.running = IF @ > 0 THEN @ - 1 ELSE 0]

processNextThreadToAdd(s) ==
    LET s1 == [s EXCEPT !.flag = FALSE, !.running = IF @ > 0 THEN @ - 1 ELSE 0]
    IN  IF Len(s1.queue) > 0
        THEN LET info == Head(s1.queue)
             IN  addOrToggleCommentAtLine([s1 EXCEPT !.queue = Tail(@)], info[1], info[2])
        ELSE s1

addCommentAtLine(s, lineNumber, e) ==
    LET newCommentInfos == getMatchedCommentAction(lineNumber)
    IN  IF getCurrentEditor = "none" THEN s
        ELSE IF Len(newCommentInfos) = 0 THEN s
        ELSE IF Len(newCommentInfos) > 1
             THEN (IF e THEN s ELSE s)
             ELSE addCommentAtLine2(s, lineNumber, newCommentInfos[1])

addCommentAtLine2(s, lineNumber, ownerId) ==
    IF editorURI # "none"
    THEN processNextThreadToAdd(
             [s EXCEPT !.created = Append(@, <<ownerId, editorURI, lineNumber>>)])
    ELSE s

\* The serializer's fields as a handler finds them.
Serializer ==
    [flag |-> addInProgress, queue |-> emptyThreadsToAddQueue, running |-> running,
     peak |-> running, started |-> 0, created |-> <<>>, attempted |-> <<>>]

\* ------------------------------------------------------- the reconciler
\* CommentThreadWidget: owner, commentThread, the editor whose onDispose disposes it
\* (host), and whether dispose() has run.
CommentThreadWidget(owner, thread, host) ==
    [owner |-> owner, commentThread |-> thread, host |-> host, disposed |-> FALSE]

\* ICommentInfo: owner and threads.
CommentInfo(owner, threads) == [owner |-> owner, threads |-> threads]

\* What getComments yields for a provider without comments for the resource.
Null == [null |-> TRUE]

\* comments.filter(c => !!c), commentInfos.filter(commentInfo => commentInfo !== null)
NotNull(infos) == SelectSeq(infos, LAMBDA c : c # Null)

\* The filter of lines 93-95 letting every thread through.
OfResourceAny(threads, uri) == threads

\* thread => thread.resource && thread.resource.toString() === editorURI.toString()
OfResource(threads, uri) == SelectSeq(threads, LAMBDA t : t.resource = uri)

\* this._commentInfos.filter(info => info.owner === owner), as indices
InfosOf(infos, owner) ==
    SelectIdx(infos, {i \in Range(infos) : i.owner = owner}, 1)

\* The handlers below run on a record r of the fields they change:
\*   widgets (_commentWidgets), infos (_commentInfos), released (the widgets
\*   whose dispose() ran), updated (the widgets whose update() ran), displayed
\*   (the widgets made).

\* removed.forEach with the match by threadId alone (no zoneWidget.owner === e.owner).
RECURSIVE applyRemovedAnyOwner(_, _, _)
applyRemovedAnyOwner(r, owner, removed) ==
    IF removed = <<>> THEN r
    ELSE LET thread == Head(removed)
             matchedZones ==
                 SelectIdx(r.widgets,
                           {w \in Range(r.widgets) :
                               /\ w.commentThread.threadId = thread.threadId
                               /\ w.commentThread.threadId # ""}, 1)
             r1 == IF Len(matchedZones) > 0
                   THEN LET index == matchedZones[1]
                        IN  [r EXCEPT !.widgets = RemoveAt(@, index),
                                      !.released = Append(@, r.widgets[index])]
                   ELSE r
         IN  applyRemovedAnyOwner(r1, owner, Tail(removed))

\* removed.forEach with the match by owner and threadId alone (no threadId !== '').
RECURSIVE applyRemovedEmptyIds(_, _, _)
applyRemovedEmptyIds(r, owner, removed) ==
    IF removed = <<>> THEN r
    ELSE LET thread == Head(removed)
             matchedZones ==
                 SelectIdx(r.widgets,
                           {w \in Range(r.widgets) :
                               /\ w.owner = owner
                               /\ w.commentThread.threadId = thread.threadId}, 1)
             r1 == IF Len(matchedZones) > 0
                   THEN LET index == matchedZones[1]
                        IN  [r EXCEPT !.widgets = RemoveAt(@, index),
                                      !.released = Append(@, r.widgets[index])]
                   ELSE r
         IN  applyRemovedEmptyIds(r1, owner, Tail(removed))

\* removed.forEach
RECURSIVE applyRemoved(_, _, _)
applyRemoved(r, owner, removed) ==
    IF removed = <<>> THEN r
    ELSE LET thread == Head(removed)
             matchedZones ==
                 SelectIdx(r.widgets,
                           {w \in Range(r.widgets) :
                               /\ w.owner = owner
                               /\ w.commentThread.threadId = thread.threadId
                               /\ w.commentThread.threadId # ""}, 1)
             r1 == IF Len(matchedZones) > 0
                   THEN LET index == matchedZones[1]
                        IN  [r EXCEPT !.widgets = RemoveAt(@, index),
                                      !.released = Append(@, r.widgets[index])]
                   ELSE r
         IN  applyRemoved(r1, owner, Tail(removed))

\* changed.forEach
RECURSIVE applyChanged(_, _, _)
applyChanged(r, owner, changed) ==
    IF changed = <<>> THEN r
    ELSE LET thread == Head(changed)
             matchedZones ==
                 SelectIdx(r.widgets,
                           {w \in Range(r.widgets) :
                               /\ w.owner = owner
                               /\ w.commentThread.threadId = thread.threadId}, 1)
             r1 == IF Len(matchedZones) > 0
                   THEN [r EXCEPT !.updated = Append(@, r.widgets[matchedZones[1]])]
                   ELSE r
         IN  applyChanged(r1, owner, Tail(changed))

\* displayCommentThread: a widget is made only when an editor is there.
displayCommentThread(r, owner, thread) ==
    IF editor # "none"
    THEN LET zoneWidget == CommentThreadWidget(owner, thread, getCurrentEditor)
         IN  [r EXCEPT !.widgets = Append(@, zoneWidget), !.displayed = Append(@, zoneWidget)]
    ELSE r

\* added.forEach
RECURSIVE applyAdded(_, _, _)
applyAdded(r, owner, added) ==
    IF added = <<>> THEN r
    ELSE LET thread == Head(added)
             r1 == displayCommentThread(r, owner, thread)
             first == InfosOf(r1.infos, owner)[1]
             r2 == [r1 EXCEPT !.infos[first].threads = Append(@, thread)]
         IN  applyAdded(r2, owner, Tail(added))

\* The handler with the additions applied before the removals.
onDidUpdateAddedFirst(r, e) ==
    IF editorURI = "none" THEN r
    ELSE IF Len(InfosOf(r.infos, e.owner)) = 0 THEN r
    ELSE LET added == OfResource(e.added, editorURI)
             removed == OfResource(e.removed, editorURI)
             changed == OfResource(e.changed, editorURI)
         IN  applyChanged(applyRemoved(applyAdded(r, e.owner, added), e.owner, removed),
                          e.owner, changed)

\* One subscription's onDidUpdateCommentThreads handler, for the batch e.
onDidUpdateCommentThreads(r, e) ==
    IF editorURI = "none" THEN r
    ELSE IF Len(InfosOf(r.infos, e.owner)) = 0 THEN r
    ELSE LET added == OfResource(e.added, editorURI)
             removed == OfResource(e.removed, editorURI)
             changed == OfResource(e.changed, editorURI)
         IN  applyAdded(applyChanged(applyRemoved(r, e.owner, removed),
                                     e.owner, changed),
                        e.owner, added)

\* The emitter calls every subscription's handler in turn; each diff editor whose
\* onCreated handler got past its awaits holds one until it is disposed.
Subscribed == {d \in DiffEditors : editors[d] = "open"}

RECURSIVE fire(_, _, _)
fire(r, e, k) == IF k = 0 THEN r ELSE fire(onDidUpdateCommentThreads(r, e), e, k - 1)

\* The reconciler's fields as a handler finds them.
Reconciler ==
    [widgets |-> commentWidgets, infos |-> commentInfos, released |-> <<>>,
     updated |-> <<>>, displayed |-> <<>>]

\* setComments
setComments(infos, commentInfosNew) == IF editor = "none" THEN infos ELSE commentInfosNew

\* ------------------------------------------------------------- the inputs
\* The (lineNumber, e) pairs requested; e is TRUE for a mouse event, FALSE for undefined.
Requests == {<<1, FALSE>>, <<2, TRUE>>, <<3, TRUE>>, <<3, FALSE>>}

Batch(owner, added, removed, changed) ==
    [owner |-> owner, added |-> added, removed |-> removed, changed |-> changed]

\* The batches about one thread: listed as removed, changed and added (once or
\* twice) in any combination.
BatchesOf(owners, threads) ==
    UNION {{Batch(o, a, r, c) :
                o \in owners, a \in {<<>>, <<t>>, <<t, t>>},
                r \in {<<>>, <<t>>}, c \in {<<>>, <<t>>}} : t \in threads}
    \ {Batch(o, <<>>, <<>>, <<>>) : o \in owners}

\* What getComments(resource) and onDidSetResourceCommentInfos deliver.
Snapshots(resource) ==
    {<<>>, <<Null, CommentInfo("o1", <<>>)>>,
     <<CommentInfo("o1", <<>>), CommentInfo("o2", <<>>)>>}
    \cup {<<CommentInfo("o1", <<t>>)>> : t \in {u \in Threads : u.resource = resource /\ u.threadId # ""}}

\* A scope names the inputs a specification draws from: the diff editors that are
\* opened, the editors that become current, the requests, the batches and, for a
\* resource, the snapshots.
FullScope ==
    [editors |-> DiffEditors, current |-> {"none", "plain"} \cup DiffEditors,
     requests |-> Requests, batches |-> BatchesOf(Owners, Threads),
     snapshots |-> [u \in Resources |-> Snapshots(u)], dispose |-> DiffEditors]

\* ------------------------------------------------------------- the actions
\* What a handler that did nothing records: its kind; tick is the parity of the
\* number of serializer calls so far.
Idle(kind) ==
    [kind |-> kind, tick |-> last.tick, request |-> <<>>, created |-> <<>>,
     attempted |-> <<>>, peak |-> running, started |-> 0, released |-> <<>>,
     updated |-> <<>>, displayed |-> <<>>]

Init ==
    /\ addInProgress = FALSE
    /\ commentWidgets = <<>>
    /\ commentInfos = <<>>
    /\ emptyThreadsToAddQueue = <<>>
    /\ currentEditor = "none"
    /\ editors = [d \in DiffEditors |-> "none"]
    /\ fetches = [u \in Resources |-> 0]
    /\ running = 0
    /\ last = [kind |-> "init", tick |-> 0, request |-> <<>>, created |-> <<>>,
               attempted |-> <<>>, peak |-> 0, started |-> 0, released |-> <<>>,
               updated |-> <<>>, displayed |-> <<>>]

\* A serializer handler, called with q, ran from Serializer to s.  The tick
\* changes: two calls in a row are two steps, also when the second leaves every
\* field as the first left it.
Serialized(kind, q, s) ==
    /\ Len(s.queue) <= MaxQueue
    /\ addInProgress' = s.flag
    /\ emptyThreadsToAddQueue' = s.queue
    /\ running' = s.running
    /\ last' = [Idle(kind) EXCEPT !.tick = 1 - @, !.request = q, !.created = s.created,
                                  !.attempted = s.attempted, !.peak = s.peak,
                                  !.started = s.started]
    /\ UNCHANGED <<commentWidgets, commentInfos, currentEditor, editors, fetches>>

\* addOrToggleCommentAtLine(lineNumber, e), from a command or from onEditorMouseDown
AddOrToggle(scope) ==
    \E q \in scope.requests :
        Serialized("addOrToggle", q, addOrToggleCommentAtLine(Serializer, q[1], q[2]))

\* a direct call of the public addCommentAtLine(lineNumber, e)
AddAtLine(scope) ==
    \E q \in scope.requests :
        Serialized("addCommentAtLine", q, addCommentAtLine(Serializer, q[1], q[2]))

\* a direct call of the public addCommentAtLine2(lineNumber, ownerId)
AddAtLine2(scope) ==
    \E q \in scope.requests, ownerId \in Owners :
        Serialized("addCommentAtLine2", q, addCommentAtLine2(Serializer, q[1], ownerId))

\* commentService.onDidUpdateCommentThreads fires with the batch e
DeltaBatch(scope) ==
    \E e \in scope.batches :
        LET r == fire(Reconciler, e, Cardinality(Subscribed))
        IN  /\ computePromise = "undefined"      \* lines 84-86: nothing to await
            /\ Len(r.widgets) <= MaxWidgets
            /\ \A i \in 1..Len(r.infos) : Len(r.infos[i].threads) <= MaxThreads
            /\ commentWidgets' = r.widgets
            /\ commentInfos' = r.infos
            /\ last' = [Idle("batch") EXCEPT !.released = r.released,
                                             !.updated = r.updated,
                                             !.displayed = r.displayed]
            /\ UNCHANGED <<addInProgress, emptyThreadsToAddQueue, currentEditor, editors,
                           fetches, running>>

\* commentService.onDidSetResourceCommentInfos fires (lines 51-57).  Line 53 takes
\* the modified editor's model, not its uri, and line 54 compares the model's
\* toString() with the resource: whether the two agree for the model of the
\* event's resource is the editor library's matter, so both answers are drawn.
SetResourceCommentInfos(scope) ==
    \E resource \in Resources, same \in BOOLEAN :
        \E commentInfosNew \in scope.snapshots[resource] :
            /\ commentInfos' = IF editorURI # "none" /\ editorURI = resource /\ same
                               THEN setComments(commentInfos, NotNull(commentInfosNew))
                               ELSE commentInfos
            /\ last' = Idle("setInfos")
            /\ UNCHANGED <<addInProgress, commentWidgets, emptyThreadsToAddQueue,
                           currentEditor, editors, fetches, running>>

\* editorManager.onCreated fires for a diff editor: the handler runs to its first await
EditorCreated(scope) ==
    \E d \in scope.editors :
        /\ editors[d] = "none"
        /\ editors' = [editors EXCEPT ![d] = "creating"]
        /\ last' = Idle("created")
        /\ UNCHANGED <<addInProgress, commentWidgets, commentInfos, emptyThreadsToAddQueue,
                       currentEditor, fetches, running>>

\* the onCreated handler resumes after its awaits: it subscribes (lines 76-125) and
\* calls beginCompute, which runs to its await of getComments (lines 174-178)
Subscribe(scope) ==
    \E d \in scope.editors :
        /\ editors[d] = "creating"
        /\ editors' = [editors EXCEPT ![d] = "open"]
        /\ fetches' = IF editorURI # "none"
                      THEN [fetches EXCEPT ![editorURI] = @ + 1]
                      ELSE fetches
        /\ last' = Idle("subscribed")
        /\ UNCHANGED <<addInProgress, commentWidgets, commentInfos, emptyThreadsToAddQueue,
                       currentEditor, running>>

\* beginCompute resumes: getComments(editorURI) settled (line 179)
FetchSettled(scope) ==
    \E resource \in Resources :
        \E comments \in scope.snapshots[resource] :
            /\ fetches[resource] > 0
            /\ fetches' = [fetches EXCEPT ![resource] = @ - 1]
            /\ commentInfos' = setComments(commentInfos, NotNull(comments))
            /\ last' = Idle("fetched")
            /\ UNCHANGED <<addInProgress, commentWidgets, emptyThreadsToAddQueue,
                           currentEditor, editors, running>>

\* zoneWidget.dispose() for the widgets displayed while d was the current editor
disposeWidgets(widgets, d) ==
    [i \in 1..Len(widgets) |->
        IF widgets[i].host = d THEN [widgets[i] EXCEPT !.disposed = TRUE] ELSE widgets[i]]

\* a diff editor is closed: its onDispose listeners run (lines 123-125, 209)
EditorDisposed(scope) ==
    \E d \in scope.dispose :
        /\ editors[d] = "open"
        /\ editors' = [editors EXCEPT ![d] = "closed"]
        /\ commentWidgets' = disposeWidgets(commentWidgets, d)
        /\ currentEditor' = IF currentEditor = d THEN "none" ELSE currentEditor
        /\ last' = Idle("disposed")
        /\ UNCHANGED <<addInProgress, commentInfos, emptyThreadsToAddQueue, fetches, running>>

\* another editor (or none) becomes the current one
CurrentChanged(scope) ==
    \E x \in scope.current :
        /\ x \in DiffEditors => editors[x] \in {"creating", "open"}
        /\ x # currentEditor
        /\ currentEditor' = x
        /\ last' = Idle("current")
        /\ UNCHANGED <<addInProgress, commentWidgets, commentInfos, emptyThreadsToAddQueue,
                       editors, fetches, running>>

\* ------------------------------------------------------- the specifications
\* The serializer with one diff editor: the batches add and remove the threads of
\* lines 1 and 2, the snapshot names owner o1.
SerializerScope ==
    [editors |-> {"d1"}, current |-> {"none", "plain", "d1"},
     requests |-> Requests,
     batches |-> {Batch("o1", <<T1>>, <<>>, <<>>), Batch("o1", <<T0>>, <<>>, <<>>),
                  Batch("o1", <<>>, <<T1>>, <<>>)},
     snapshots |-> [u \in Resources |-> {<<CommentInfo("o1", <<>>)>>}], dispose |-> {}]

NextSerializer ==
    \/ AddOrToggle(SerializerScope)
    \/ AddAtLine(SerializerScope)
    \/ AddAtLine2(SerializerScope)
    \/ DeltaBatch(SerializerScope)
    \/ EditorCreated(SerializerScope)
    \/ Subscribe(SerializerScope)
    \/ FetchSettled(SerializerScope)
    \/ CurrentChanged(SerializerScope)

SpecSerializer == Init /\ [][NextSerializer]_vars

\* The batches that add a thread (once or twice), remove it, change it, or remove
\* and add it; a batch that does several of these leaves the lists it would
\* leave as separate batches, removals first.
PlainBatches ==
    {e \in BatchesOf(Owners, Threads) :
        \/ Len(e.added) + Len(e.removed) + Len(e.changed) = 1
        \/ e.changed = <<>> /\ Len(e.added) + Len(e.removed) = 2}

\* The reconciler: diff editor d1 is opened, focused and closed, d2 is opened
\* beside it and never focused; the snapshots come from beginCompute alone.
ReconcilerScope ==
    [editors |-> DiffEditors, current |-> {"none", "d1"},
     requests |-> {}, batches |-> PlainBatches,
     snapshots |-> [u \in Resources |-> Snapshots(u)], dispose |-> {"d1"}]

NextReconciler ==
    \/ DeltaBatch(ReconcilerScope)
    \/ EditorCreated(ReconcilerScope)
    \/ Subscribe(ReconcilerScope)
    \/ FetchSettled(ReconcilerScope)
    \/ EditorDisposed(ReconcilerScope)
    \/ CurrentChanged(ReconcilerScope)

SpecReconciler == Init /\ [][NextReconciler]_vars

\* The batches of the editor life cycle: a persisted thread and a template of
\* resource a, a persisted thread and a template of resource b.
LifecycleBatches ==
    {Batch("o1", <<T1>>, <<>>, <<>>), Batch("o1", <<>>, <<T1>>, <<>>),
     Batch("o1", <<>>, <<>>, <<T1>>), Batch("o1", <<T0>>, <<>>, <<>>),
     Batch("o1", <<T2>>, <<>>, <<>>), Batch("o1", <<>>, <<>>, <<T0B>>)}

\* The editor life cycle: d1 and d2 are opened and focused in any order, and d1 is
\* closed.
LifecycleScope ==
    [editors |-> DiffEditors, current |-> {"none"} \cup DiffEditors,
     requests |-> {}, batches |-> LifecycleBatches,
     snapshots |-> [u \in Resources |-> {<<>>, <<CommentInfo("o1", <<>>)>>}],
     dispose |-> {"d1"}]

NextLifecycle ==
    \/ DeltaBatch(LifecycleScope)
    \/ EditorCreated(LifecycleScope)
    \/ Subscribe(LifecycleScope)
    \/ FetchSettled(LifecycleScope)
    \/ EditorDisposed(LifecycleScope)
    \/ CurrentChanged(LifecycleScope)

SpecLifecycle == Init /\ [][NextLifecycle]_vars

\* Every action with every input.
Next ==
    \/ AddOrToggle(FullScope)
    \/ AddAtLine(FullScope)
    \/ AddAtLine2(FullScope)
    \/ DeltaBatch(FullScope)
    \/ SetResourceCommentInfos(FullScope)
    \/ EditorCreated(FullScope)
    \/ Subscribe(FullScope)
    \/ FetchSettled(FullScope)
    \/ EditorDisposed(FullScope)
    \/ CurrentChanged(FullScope)

Spec == Init /\ [][Next]_vars

\* ------------------------------------------------------- the serializer's claims
\* The widgets whose glyph is at lineNumber.
WidgetAtLine(lineNumber) == Len(existingCommentsAtLine(lineNumber)) > 0

\* C1: when addOrToggleCommentAtLine returns and a request took the lock during
\* the call, the lock has been released again (processNextThreadToAdd was reached
\* on the exit path taken); the handlers are synchronous, so a lock still held at
\* the return is held until some other call releases it.
C1_LockReleasedOnEveryPath ==
    (last.kind = "addOrToggle" /\ last.attempted # <<>>) => ~addInProgress

\* C2: at most one creation workflow started by addOrToggleCommentAtLine is
\* running at any time, during and between the handlers.
C2_OneWorkflowAtATime == running <= 1 /\ last.peak <= 1

\* C2's case: a workflow is in flight and a request that arrived meanwhile waits
\* in the queue instead of starting a second one.
C2_Witness ==
    /\ last.kind = "addOrToggle"
    /\ running = 1
    /\ last.started = 0
    /\ Len(emptyThreadsToAddQueue) > 0

\* The requests a step took from the queue, in the order they took the lock: all
\* that took the lock, but for the step's own request when it found the lock free.
Dequeued(before, after) ==
    IF after.kind = "addOrToggle" /\ ~before /\ after.attempted # <<>>
    THEN Tail(after.attempted)
    ELSE after.attempted

\* C3: the queued requests are attempted in arrival order: what a step takes from
\* the queue is a prefix of the queue in its order, the rest stays in place ahead
\* of anything the step queues, and a queued request takes the lock only when no
\* workflow is still running.
C3_QueueIsFifo ==
    [][LET taken == Dequeued(addInProgress, last')
           n == Len(taken)
       IN  /\ n <= Len(emptyThreadsToAddQueue)
           /\ taken = SubSeq(emptyThreadsToAddQueue, 1, n)
           /\ Len(emptyThreadsToAddQueue') >= Len(emptyThreadsToAddQueue) - n
           /\ SubSeq(emptyThreadsToAddQueue', 1, Len(emptyThreadsToAddQueue) - n)
                  = SubSeq(emptyThreadsToAddQueue, n + 1, Len(emptyThreadsToAddQueue))
           /\ last'.peak <= 1]_vars

\* C3's case: one call drained two different queued requests, oldest first.
C3_Witness ==
    /\ last.kind \in {"addCommentAtLine", "addCommentAtLine2"}
    /\ Len(last.attempted) >= 2
    /\ last.attempted[1] # last.attempted[2]

\* C4: of two addOrToggleCommentAtLine calls for one line made in a row (no widget
\* for the line has arrived in between), only the first calls
\* createCommentThreadTemplate for the line.
C4_OneCreationForRapidCalls ==
    [][(/\ last.kind = "addOrToggle"
        /\ last'.kind = "addOrToggle"
        /\ last.created # <<>>
        /\ last'.request[1] = last.request[1]
        /\ last.created[1][3] = last.request[1])
       => last'.created = <<>>]_vars

\* C5: two addOrToggleCommentAtLine calls in a row for a line that has a displayed
\* widget start no creation workflow, leave the widget list as it was and leave
\* the in-progress flag clear.
C5_ToggleIsIdempotent ==
    [][(/\ last.kind = "addOrToggle"
        /\ last'.kind = "addOrToggle"
        /\ last'.request[1] = last.request[1]
        /\ WidgetAtLine(last.request[1]))
       => (/\ last.started = 0 /\ last'.started = 0
           /\ last.created = <<>> /\ last'.created = <<>>
           /\ commentWidgets' = commentWidgets
           /\ ~addInProgress')]_vars

\* C13: an addOrToggleCommentAtLine call that finds an insertion in progress only
\* appends its (lineNumber, e) at the tail of _emptyThreadsToAddQueue: the flag
\* stays set, the earlier entries, _commentWidgets and _commentInfos stay as they
\* were, no request takes the lock, no creation workflow starts and
\* createCommentThreadTemplate is not called.
C13_QueuedRequestOnlyAppends ==
    [][(last'.kind = "addOrToggle" /\ addInProgress)
       => (/\ emptyThreadsToAddQueue' = Append(emptyThreadsToAddQueue, last'.request)
           /\ addInProgress'
           /\ commentWidgets' = commentWidgets
           /\ commentInfos' = commentInfos
           /\ running' = running
           /\ last'.started = 0
           /\ last'.attempted = <<>>
           /\ last'.created = <<>>)]_vars

\* C13's case: a call found the lock taken and its request now stands behind a
\* different request that was queued before it.
C13_Witness ==
    /\ last.kind = "addOrToggle"
    /\ last.attempted = <<>>
    /\ addInProgress
    /\ Len(emptyThreadsToAddQueue) = 2
    /\ emptyThreadsToAddQueue[2] = last.request
    /\ emptyThreadsToAddQueue[1] # last.request

\* C19: whenever a handler has returned, a non-empty _emptyThreadsToAddQueue
\* comes with a set in-progress flag: no request waits while the serializer is free.
C19_QueuedImpliesInProgress ==
    Len(emptyThreadsToAddQueue) > 0 => addInProgress

\* C19's case: a call released the lock, the oldest queued request took it at once
\* and holds it, and a request is still waiting behind it.
C19_Witness ==
    /\ last.kind \in {"addCommentAtLine", "addCommentAtLine2"}
    /\ last.attempted # <<>>
    /\ Len(emptyThreadsToAddQueue) > 0
    /\ addInProgress

\* ------------------------------------------------------- the reconciler's claims
\* The number of widgets among widgets that show the thread (owner, threadId).
RECURSIVE Count(_, _, _)
Count(widgets, owner, threadId) ==
    IF widgets = <<>> THEN 0
    ELSE (IF Head(widgets).owner = owner /\ Head(widgets).commentThread.threadId = threadId
          THEN 1 ELSE 0) + Count(Tail(widgets), owner, threadId)

\* The lists after the comment service emitted e in the state r.
Emit(r, e) == fire(r, e, Cardinality(Subscribed))

\* A handler that gets e reaches the removals, changes and additions of e's thread t.
Applies(e, t) ==
    /\ Cardinality(Subscribed) > 0
    /\ editorURI = t.resource
    /\ Len(InfosOf(commentInfos, e.owner)) > 0

\* C6: no two widgets of _commentWidgets show the same owner and the same
\* non-empty threadId.
C6_OneWidgetPerThread ==
    \A i, j \in 1..Len(commentWidgets) :
        (/\ i < j
         /\ commentWidgets[i].owner = commentWidgets[j].owner
         /\ commentWidgets[i].commentThread.threadId = commentWidgets[j].commentThread.threadId)
        => commentWidgets[i].commentThread.threadId = ""

\* C7: while a resource is active, the thread of every widget is in the threads of
\* a CommentInfo of the widget's owner.
C7_WidgetsWithinInfos ==
    editorURI # "none" =>
        \A i \in 1..Len(commentWidgets) :
            \E k \in 1..Len(commentInfos) :
                /\ commentInfos[k].owner = commentWidgets[i].owner
                /\ commentWidgets[i].commentThread \in Range(commentInfos[k].threads)

\* The lists after the batch {added:[t]} and then the batch {removed:[t]}.
RoundTrip(owner, t) ==
    Emit(Emit(Reconciler, Batch(owner, <<t>>, <<>>, <<>>)), Batch(owner, <<>>, <<t>>, <<>>))

\* C8 as stated: after {added:[T]} and then {removed:[T]} no widget shows T.
C8_RoundTripToEmpty ==
    \A owner \in Owners, t \in Threads :
        Count(RoundTrip(owner, t).widgets, owner, t.threadId) = 0

\* C8 as amended: after {added:[T]} and then {removed:[T]}, as many widgets show a
\* T with a non-empty threadId as before the first batch (none when T was not
\* displayed); with an empty threadId the removal matches nothing and the widgets
\* are those the first batch left.
C8_RoundTripRestores ==
    \A owner \in Owners, t \in Threads :
        IF t.threadId # ""
        THEN Count(RoundTrip(owner, t).widgets, owner, t.threadId)
                 = Count(commentWidgets, owner, t.threadId)
        ELSE RoundTrip(owner, t).widgets
                 = Emit(Reconciler, Batch(owner, <<t>>, <<>>, <<>>)).widgets

\* C8's case: a batch has removed the only widget of a thread that an earlier
\* batch displayed, and adding the thread again would display it again.
C8_Witness ==
    /\ last.kind = "batch"
    /\ Len(last.released) = 1
    /\ last.displayed = <<>>
    /\ Count(commentWidgets, last.released[1].owner,
             last.released[1].commentThread.threadId) = 0
    /\ Count(Emit(Reconciler,
                  Batch(last.released[1].owner, <<last.released[1].commentThread>>,
                        <<>>, <<>>)).widgets,
             last.released[1].owner, last.released[1].commentThread.threadId) = 1

\* The batches that list one thread as removed and as added.
Replacements == {e \in BatchesOf(Owners, Threads) : e.removed # <<>> /\ e.added # <<>>}

C10_NoBatchDuringFetch ==
    (/\ last.kind = "batch"
     /\ editorURI # "none"
     /\ last.released \o last.updated \o last.displayed # <<>>)
    => fetches[editorURI] = 0

\* The removed lists that hold only threads with threadId ''.
EmptyIdRemovals == {<<T0>>, <<T0, T0>>, <<T0B>>, <<T0, T0B>>}

\* C14: a removed thread with threadId '' detaches and disposes no widget: for
\* every owner and every removed list of such threads the removal step leaves
\* _commentWidgets as it was and calls no dispose(), and so does the whole batch
\* that lists nothing else, also while a widget with threadId '' of that owner is
\* displayed.
C14_EmptyIdNeverRemoved ==
    \A owner \in Owners, removed \in EmptyIdRemovals :
        LET step == applyRemoved(Reconciler, owner, removed)
            out == Emit(Reconciler, Batch(owner, <<>>, removed, <<>>))
        IN  /\ step.widgets = commentWidgets
            /\ step.released = <<>>
            /\ out.widgets = commentWidgets
            /\ out.released = <<>>

\* C14's case: a widget with threadId '' is displayed, its owner is cached and its
\* resource is active, and the batch that came last released nothing.
C14_Witness ==
    /\ last.kind = "batch"
    /\ last.released = <<>>
    /\ last.displayed = <<>>
    /\ Applies(Batch("o1", <<>>, <<T0>>, <<>>), T0)
    /\ Count(commentWidgets, "o1", "") > 0

\* The batches about one thread of either resource, and batches that mix threads
\* of the two resources.
FrameBatches ==
    BatchesOf(Owners, {T1, T0, T2, T0B})
    \cup {Batch(o, <<T1, T2>>, <<TB, T1>>, <<T0B, T1>>) : o \in Owners}
    \cup {Batch(o, <<T2, T0>>, <<T2>>, <<T0, TB>>) : o \in Owners}

\* The threads of a list that are of the resource uri.
ThreadsOf(threads, uri) == SelectSeq(threads, LAMBDA t : t.resource = uri)

\* What is left of the batch e without its threads of other resources than uri.
Restrict(e, uri) ==
    Batch(e.owner, ThreadsOf(e.added, uri), ThreadsOf(e.removed, uri), ThreadsOf(e.changed, uri))

\* C15: a batch acts only through its threads of the active resource and only for
\* a cached owner: without an active resource, or without a CommentInfo of the
\* batch's owner, the batch leaves _commentWidgets and _commentInfos as they were
\* and disposes, refreshes and displays nothing; and a batch does what it would do
\* without its threads of other resources (nothing, when it has no others).
C15_BatchFrame ==
    \A e \in FrameBatches :
        LET out == Emit(Reconciler, e)
            own == Restrict(e, editorURI)
        IN  /\ (editorURI = "none" \/ Len(InfosOf(commentInfos, e.owner)) = 0)
                   => out = Reconciler
            /\ (editorURI # "none" /\ own # e)
                   => out = Emit(Reconciler, own)
            /\ own = Batch(e.owner, <<>>, <<>>, <<>>)
                   => out = Reconciler

\* C15's case: a batch has come while a resource is active, a handler is
\* subscribed, widgets are displayed and owner o1 is cached but owner o2 is not
\* (a batch of o2, or one about resource b, finds work it must leave alone), and it
\* did nothing.
C15_Witness ==
    /\ last.kind = "batch"
    /\ last.released \o last.updated \o last.displayed = <<>>
    /\ editorURI = "a"
    /\ Subscribed # {}
    /\ commentWidgets # <<>>
    /\ Len(InfosOf(commentInfos, "o1")) > 0
    /\ Len(InfosOf(commentInfos, "o2")) = 0

\* The batches that only add: one thread, once or twice.
Additions ==
    {e \in BatchesOf(Owners, Threads) : e.removed = <<>> /\ e.changed = <<>>}

\* The widgets displayCommentThread makes for the threads of added, in order.
WidgetsFor(owner, added) ==
    [i \in 1..Len(added) |-> CommentThreadWidget(owner, added[i], getCurrentEditor)]

\* The number of threads in the CommentInfos of infos.
RECURSIVE ThreadCount(_)
ThreadCount(infos) ==
    IF infos = <<>> THEN 0 ELSE Len(Head(infos).threads) + ThreadCount(Tail(infos))

\* C17: a batch that is applied appends, for each of its added threads, exactly
\* one new widget to _commentWidgets, anchored at the thread's line, and the
\* thread to the threads of the owner's first CommentInfo; and in every batch as
\* many widgets are made as threads are appended to _commentInfos.
C17_OneWidgetPerAddedThread ==
    \A e \in Additions :
        LET r == Emit(Reconciler, e)
            first == InfosOf(commentInfos, e.owner)[1]
        IN  /\ Applies(e, e.added[1])
               => /\ r.widgets = commentWidgets \o WidgetsFor(e.owner, e.added)
                  /\ r.displayed = WidgetsFor(e.owner, e.added)
                  /\ \A i \in 1..Len(r.displayed) :
                         getGlyphPosition(r.displayed[i]) = e.added[i].line
                  /\ r.infos = [commentInfos EXCEPT ![first].threads = @ \o e.added]
            /\ Len(r.widgets) - Len(commentWidgets)
                   = ThreadCount(r.infos) - ThreadCount(commentInfos)

\* C18: a batch is applied exactly once, however many diff editors are open:
\* what the comment service's emit leaves (the widgets, the infos, the widgets
\* disposed, refreshed and displayed) is what one run of the handler leaves.
C18_BatchAppliedOnce ==
    Cardinality(Subscribed) >= 1
    => \A e \in PlainBatches : Emit(Reconciler, e) = onDidUpdateCommentThreads(Reconciler, e)

\* ------------------------------------------------------- the life cycle's claims
\* The threads of the two resources: a persisted one and a template for each.
LifecycleThreads == {T1, T0, T2, T0B}

\* The widgets among widgets that show a thread of the resource uri.
WidgetsOf(widgets, uri) == SelectSeq(widgets, LAMBDA w : w.commentThread.resource = uri)

\* C11: once a diff editor is closed, every widget displayed in it is disposed,
\* and no batch the comment service emits afterwards touches a widget of the closed
\* editor's resource: the widgets of that resource in _commentWidgets stay as they
\* are (none added, none removed) and update() runs on none of them.
C11_ClosedEditorLeftAlone ==
    \A d \in DiffEditors :
        editors[d] = "closed" =>
            /\ \A i \in 1..Len(commentWidgets) :
                   commentWidgets[i].host = d => commentWidgets[i].disposed
            /\ \A e \in BatchesOf(Owners, LifecycleThreads) :
                   LET r == Emit(Reconciler, e)
                   IN  /\ WidgetsOf(r.widgets, ResourceOf(d))
                              = WidgetsOf(commentWidgets, ResourceOf(d))
                       /\ WidgetsOf(r.updated, ResourceOf(d)) = <<>>

\* C12: the result of a snapshot fetch that was outstanding when its diff editor
\* was closed is discarded when it arrives: the step that settles a fetch for the
\* resource of a closed editor leaves _commentInfos and _commentWidgets as they
\* were, whichever editor is current by then.
C12_StaleFetchDiscarded ==
    [][\A d \in DiffEditors :
          (editors[d] = "closed" /\ fetches'[ResourceOf(d)] < fetches[ResourceOf(d)])
          => (commentInfos' = commentInfos /\ commentWidgets' = commentWidgets)]_vars

\* C16: a thread is refreshed only while it is displayed: a batch that lists as
\* changed a thread whose (owner, threadId) has no widget in _commentWidgets
\* refreshes nothing and leaves the list as it was, and no batch calls update() on
\* a widget that has been disposed.
C16_RefreshOnlyWhileDisplayed ==
    /\ \A owner \in Owners, t \in LifecycleThreads :
           Count(commentWidgets, owner, t.threadId) = 0
           => LET r == Emit(Reconciler, Batch(owner, <<>>, <<>>, <<t>>))
              IN  r.updated = <<>> /\ r.widgets = commentWidgets
    /\ last.kind = "batch"
           => \A i \in 1..Len(last.updated) : ~last.updated[i].disposed

\* C20: _commentWidgets holds no disposed widget: a widget that was disposed, by a
\* removal or by the close of the editor it was displayed in, is no longer in the
\* list.
C20_NoDisposedWidgetListed ==
    \A i \in 1..Len(commentWidgets) : ~commentWidgets[i].disposed

====
